---- MODULE Spec2Model ----
(***************************************************************************)
(* Model of package ipv4's endpoint facades (endpoint.go): the three       *)
(* constructors NewConn, NewPacketConn and NewRawConn, and the methods of  *)
(* PacketConn and RawConn (SetControlMessage, the deadline setters, Close).*)
(* The wrapped net connection, descriptor resolution (sysfd) and the two   *)
(* socket-option primitives are collaborators; every interaction with them *)
(* is appended to oslog, the record a mock collaborator would keep.        *)
(***************************************************************************)
EXTENDS Integers, Sequences, FiniteSets, TLC

\* Bound: the number of method calls made on the endpoint in one behaviour.
MaxCalls == 2

\* The goroutines that call methods on the one endpoint.
Threads == {"g1", "g2"}

\* ControlFlags bits (two of the package's flags are enough to tell sets apart);
\* a call asks for one class.
Flags == {"FlagTTL", "FlagDst"}
ControlFlagSets == {{f} : f \in Flags}

\* Concrete kinds of the connection the caller hands to a constructor.
\* "nil" is the nil interface value; "Custom" is a net.PacketConn
\* implementation that does not implement net.Conn.
NetConnKinds == {"TCP", "UDP", "IP"}
PacketConnKinds == {"UDP", "IP", "Custom"}
Kinds == {"nil"} \cup NetConnKinds \cup PacketConnKinds

VARIABLES
  conn,        \* kind of the connection the caller created
  connClosed,  \* the connection has been closed
  hdrincl,     \* OS level: header prepend enabled on the socket
  osOpt,       \* OS level: control-message classes currently enabled
  ctor,        \* which constructor ran and how it ended
  ep,          \* the endpoint: facade type and its handler's connection ref
  rawOpt,      \* the handler's recorded raw option state
  oslog,       \* every collaborator interaction, in order
  pc,          \* per goroutine: position inside its current call
  cur,         \* per goroutine: the current (or last) call and its locals
  ret,         \* per goroutine: what the last call returned
  ncalls,      \* number of method calls started
  overlap      \* history: two SetControlMessage calls were in flight at once

vars == <<conn, connClosed, hdrincl, osOpt, ctor, ep, rawOpt, oslog,
          pc, cur, ret, ncalls, overlap>>

Fd(k) == CASE k = "TCP" -> 3 [] k = "UDP" -> 4 [] k = "IP" -> 5 [] OTHER -> -1

\* One collaborator interaction: the operation, the goroutine and the facade
\* function it was made from, its arguments and its result.
Entry(op, by, via, fd, cf, on, res) ==
  [op |-> op, by |-> by, via |-> via, fd |-> fd, cf |-> cf, on |-> on, res |-> res]

NoArg == [fd |-> -1, cf |-> {}, on |-> FALSE]

NoCall == [m |-> "none", n |-> 0, cf |-> {}, on |-> FALSE, arg |-> NoArg,
           tmp |-> {}, mark |-> 0, afterClose |-> FALSE]

NoCtor == [name |-> "none", outcome |-> "none", r |-> "nil", err |-> "nil"]
NoEndpoint == [type |-> "none", c |-> "nil"]

Init ==
  /\ conn \in Kinds
  /\ connClosed \in BOOLEAN
  /\ (conn = "nil" => ~connClosed)
  /\ hdrincl = FALSE
  /\ osOpt = {}
  /\ ctor = NoCtor
  /\ ep = NoEndpoint
  /\ rawOpt = {}
  /\ oslog = <<>>
  /\ pc = [t \in Threads |-> "idle"]
  /\ cur = [t \in Threads |-> NoCall]
  /\ ret = [t \in Threads |-> "none"]
  /\ ncalls = 0
  /\ overlap = FALSE

----------------------------------------------------------------------------
(* Collaborators *)

\* func (c *payloadHandler) ok() / (c *packetHandler) ok(): the handler's
\* wrapped connection reference is non-nil.
ok(c) == c # "nil"

\* Descriptor resolution: fails when the connection is closed or of a kind
\* that has no descriptor.
sysfd(c, closed) ==
  IF closed \/ c \notin NetConnKinds
  THEN [fd |-> -1, err |-> "errSysfd"]
  ELSE [fd |-> Fd(c), err |-> "nil"]

\* The wrapped connection's own methods: a closed connection reports its
\* closed-connection error.
ConnCall(closed) == IF closed THEN "errClosing" ELSE "nil"

\* Results the OS may give to a socket-option request on descriptor fd: a
\* request on an invalid or closed descriptor fails, any other may fail.
SockoptResults(fd, closed) ==
  IF closed \/ fd < 0 THEN {"errSockopt"} ELSE {"nil", "errSockopt"}

\* Mutant: the assertion names one concrete type instead of the interface.
AssertUDPConn(c) == c = "UDP"

\* Go type assertions c.(net.Conn) and c.(*net.IPConn): false means panic.
AssertNetConn(c) == c \in NetConnKinds
AssertIPConn(c) == c = "IP"

----------------------------------------------------------------------------
(* Constructors *)

Fresh == ctor.name = "none"

\* func NewConn(c net.Conn) *Conn
NewConn ==
  /\ Fresh
  /\ conn \in {"nil"} \cup NetConnKinds
  /\ ctor' = [name |-> "NewConn", outcome |-> "returned", r |-> "endpoint", err |-> "nil"]
  /\ ep' = [type |-> "Conn", c |-> conn]
  /\ UNCHANGED <<conn, connClosed, hdrincl, osOpt, rawOpt, oslog, pc, cur, ret, ncalls, overlap>>

\* func NewPacketConn(c net.PacketConn) *PacketConn
NewPacketConn ==
  /\ Fresh
  /\ conn \in {"nil"} \cup PacketConnKinds
  /\ IF AssertNetConn(conn)
     THEN /\ ctor' = [name |-> "NewPacketConn", outcome |-> "returned", r |-> "endpoint", err |-> "nil"]
          /\ ep' = [type |-> "PacketConn", c |-> conn]
     ELSE /\ ctor' = [name |-> "NewPacketConn", outcome |-> "panic", r |-> "nil", err |-> "nil"]
          /\ ep' = ep
  /\ UNCHANGED <<conn, connClosed, hdrincl, osOpt, rawOpt, oslog, pc, cur, ret, ncalls, overlap>>

\* Mutant: the header-prepend error is dropped.
RawConnReturnIgnoresPrepend(fdErr, hpErr) ==
  IF fdErr # "nil" THEN [r |-> "nil", err |-> fdErr]
  ELSE [r |-> "endpoint", err |-> "nil"]

\* Mutant: a failed enablement is reported as the package's own EINVAL.
RawConnReturnInvalid(fdErr, hpErr) ==
  IF fdErr # "nil" THEN [r |-> "nil", err |-> fdErr]
  ELSE IF hpErr # "nil" THEN [r |-> "nil", err |-> "EINVAL"]
  ELSE [r |-> "endpoint", err |-> "nil"]

\* NewRawConn's two returns after the descriptor and header-prepend steps.
RawConnReturn(fdErr, hpErr) ==
  IF fdErr # "nil" THEN [r |-> "nil", err |-> fdErr]
  ELSE IF hpErr # "nil" THEN [r |-> "nil", err |-> hpErr]
  ELSE [r |-> "endpoint", err |-> "nil"]

\* func NewRawConn(c net.PacketConn) (*RawConn, error)
NewRawConn ==
  /\ Fresh
  /\ conn \in {"nil"} \cup PacketConnKinds
  /\ IF ~(AssertNetConn(conn) /\ AssertIPConn(conn))
     THEN /\ ctor' = [name |-> "NewRawConn", outcome |-> "panic", r |-> "nil", err |-> "nil"]
          /\ UNCHANGED <<ep, oslog, hdrincl>>
     ELSE LET d == sysfd(conn, connClosed)
              e1 == Entry("sysfd", "ctor", "NewRawConn", d.fd, {}, FALSE, d.err)
          IN IF d.err # "nil"
             THEN LET out == RawConnReturn(d.err, "nil")
                  IN /\ ctor' = [name |-> "NewRawConn", outcome |-> "returned", r |-> out.r, err |-> out.err]
                     /\ ep' = IF out.r = "endpoint" THEN [type |-> "RawConn", c |-> conn] ELSE ep
                     /\ oslog' = Append(oslog, e1)
                     /\ hdrincl' = hdrincl
             ELSE \E hp \in {"nil", "errHdrincl"} :
                  LET out == RawConnReturn("nil", hp)
                  IN /\ ctor' = [name |-> "NewRawConn", outcome |-> "returned", r |-> out.r, err |-> out.err]
                     /\ ep' = IF out.r = "endpoint" THEN [type |-> "RawConn", c |-> conn] ELSE ep
                     /\ oslog' = oslog \o <<e1, Entry("hdrincl", "ctor", "NewRawConn", d.fd, {}, TRUE, hp)>>
                     /\ hdrincl' = (hp = "nil")
  /\ UNCHANGED <<conn, connClosed, osOpt, rawOpt, pc, cur, ret, ncalls, overlap>>

\* The zero value of a facade type (new(PacketConn), new(RawConn)): every
\* embedded handler holds a nil connection.
ZeroValue ==
  /\ Fresh
  /\ \E T \in {"PacketConn", "RawConn"} :
       /\ ctor' = [name |-> "zero", outcome |-> "returned", r |-> "endpoint", err |-> "nil"]
       /\ ep' = [type |-> T, c |-> "nil"]
  /\ UNCHANGED <<conn, connClosed, hdrincl, osOpt, rawOpt, oslog, pc, cur, ret, ncalls, overlap>>

----------------------------------------------------------------------------
(* Methods of PacketConn and RawConn *)

InFlight == {"sysfd", "sockopt", "load", "store"}

\* Some Close on this endpoint has already returned success.
CloseSucceeded == \E i \in 1..Len(oslog) : oslog[i].op = "Close" /\ oslog[i].res = "nil"

\* The goroutines are interchangeable: g1 names the one that calls first.
CanCall(T, t) ==
  /\ ctor.outcome = "returned"
  /\ ep.type = T
  /\ pc[t] \in {"idle", "done"}
  /\ ncalls < MaxCalls
  /\ (ncalls = 0 => t = "g1")

Begin(m, cf, on) ==
  [m |-> m, n |-> ncalls + 1, cf |-> cf, on |-> on, arg |-> NoArg, tmp |-> {},
   mark |-> Len(oslog), afterClose |-> CloseSucceeded]

\* Method m of facade T, called by goroutine t: the readiness guard, then
\* the wrapped connection's method `callee`, whose result is returned.
Delegate(T, t, m, callee) ==
  /\ CanCall(T, t)
  /\ ncalls' = ncalls + 1
  /\ cur' = [cur EXCEPT ![t] = Begin(m, {}, FALSE)]
  /\ pc' = [pc EXCEPT ![t] = "done"]
  /\ IF ~ok(ep.c)
     THEN /\ ret' = [ret EXCEPT ![t] = "EINVAL"]
          /\ UNCHANGED <<oslog, connClosed>>
     ELSE LET r == ConnCall(connClosed)
          IN /\ ret' = [ret EXCEPT ![t] = r]
             /\ oslog' = Append(oslog, Entry(callee, t, m, -1, {}, FALSE, r))
             /\ connClosed' = IF callee = "Close" THEN TRUE ELSE connClosed
  /\ UNCHANGED <<conn, hdrincl, osOpt, ctor, rawOpt, overlap>>

\* Mutant: SetDeadline forwards to the wrapped connection's Close.
PacketConn_SetDeadlineCloses(t) ==
  Delegate("PacketConn", t, "SetDeadline", "Close") /\ UNCHANGED ep

\* Mutant: Close clears the handler's connection reference.
PacketConn_CloseClearsConn(t) ==
  Delegate("PacketConn", t, "Close", "Close") /\ ep' = [ep EXCEPT !.c = "nil"]

PacketConn_SetDeadline(t) ==
  Delegate("PacketConn", t, "SetDeadline", "SetDeadline") /\ UNCHANGED ep
PacketConn_SetReadDeadline(t) ==
  Delegate("PacketConn", t, "SetReadDeadline", "SetReadDeadline") /\ UNCHANGED ep
PacketConn_SetWriteDeadline(t) ==
  Delegate("PacketConn", t, "SetWriteDeadline", "SetWriteDeadline") /\ UNCHANGED ep
PacketConn_Close(t) ==
  Delegate("PacketConn", t, "Close", "Close") /\ UNCHANGED ep

RawConn_SetDeadline(t) ==
  Delegate("RawConn", t, "SetDeadline", "SetDeadline") /\ UNCHANGED ep
RawConn_SetReadDeadline(t) ==
  Delegate("RawConn", t, "SetReadDeadline", "SetReadDeadline") /\ UNCHANGED ep
RawConn_SetWriteDeadline(t) ==
  Delegate("RawConn", t, "SetWriteDeadline", "SetWriteDeadline") /\ UNCHANGED ep
RawConn_Close(t) ==
  Delegate("RawConn", t, "Close", "Close") /\ UNCHANGED ep

\* SetControlMessage, entry: the readiness guard.
ControlMessageEntry(T, t, cf, on) ==
  /\ CanCall(T, t)
  /\ ncalls' = ncalls + 1
  /\ cur' = [cur EXCEPT ![t] = Begin("SetControlMessage", cf, on)]
  /\ IF ~ok(ep.c)
     THEN /\ pc' = [pc EXCEPT ![t] = "done"]
          /\ ret' = [ret EXCEPT ![t] = "EINVAL"]
          /\ overlap' = overlap
     ELSE /\ pc' = [pc EXCEPT ![t] = "sysfd"]
          /\ ret' = [ret EXCEPT ![t] = "pending"]
          /\ overlap' = (overlap \/ \E u \in Threads \ {t} : pc[u] \in InFlight)
  /\ UNCHANGED <<conn, connClosed, hdrincl, osOpt, ctor, ep, rawOpt, oslog>>

\* Mutant: the early return on a descriptor error is missing.
AfterSysfdNoReturn(err) == [pc |-> "sockopt", ret |-> "pending"]

\* Mutant: the on/off intent is inverted on the way to the OS.
ControlMessageCallInverted(fd, cf, on) == [fd |-> fd, cf |-> cf, on |-> ~on]

\* Mutant: the facade reports EINVAL whatever setControlMessage returned.
ControlMessageReturnInvalid(r) == "EINVAL"

\* fd, err := sysfd(); if err != nil { return err }
AfterSysfd(err) ==
  IF err # "nil" THEN [pc |-> "done", ret |-> err]
  ELSE [pc |-> "sockopt", ret |-> "pending"]

\* The arguments of setControlMessage(fd, &rawOpt, cf, on).
ControlMessageCall(fd, cf, on) == [fd |-> fd, cf |-> cf, on |-> on]

\* return setControlMessage(...): the result is returned as it is.
ControlMessageReturn(r) == r

\* SetControlMessage, descriptor resolution.
ControlMessageSysfd(T, t) ==
  /\ ep.type = T
  /\ pc[t] = "sysfd"
  /\ LET d == sysfd(ep.c, connClosed)
         nx == AfterSysfd(d.err)
     IN /\ oslog' = Append(oslog, Entry("sysfd", t, "SetControlMessage", d.fd, {}, FALSE, d.err))
        /\ pc' = [pc EXCEPT ![t] = nx.pc]
        /\ ret' = [ret EXCEPT ![t] = nx.ret]
        /\ cur' = [cur EXCEPT ![t].arg = ControlMessageCall(d.fd, cur[t].cf, cur[t].on)]
  /\ UNCHANGED <<conn, connClosed, hdrincl, osOpt, ctor, ep, rawOpt, ncalls, overlap>>

\* func (c *PacketConn) SetControlMessage(cf ControlFlags, on bool) error
PacketConn_SetControlMessage(t, cf, on) ==
  ep.type = "PacketConn" /\ ControlMessageEntry("PacketConn", t, cf, on)
PacketConn_sysfd(t) ==
  ep.type = "PacketConn" /\ ControlMessageSysfd("PacketConn", t)

\* func (c *RawConn) SetControlMessage(cf ControlFlags, on bool) error
RawConn_SetControlMessage(t, cf, on) ==
  ep.type = "RawConn" /\ ControlMessageEntry("RawConn", t, cf, on)
RawConn_sysfd(t) ==
  ep.type = "RawConn" /\ ControlMessageSysfd("RawConn", t)

\* Applying or clearing flag classes in an option state.
Apply(opt, cf, on) == IF on THEN opt \cup cf ELSE opt \ cf

\* setControlMessage, the OS-level update.
setControlMessage_sockopt(t) ==
  /\ pc[t] = "sockopt"
  /\ LET a == cur[t].arg
     IN \E r \in SockoptResults(a.fd, connClosed) :
          /\ oslog' = Append(oslog, Entry("setopt", t, "SetControlMessage", a.fd, a.cf, a.on, r))
          /\ IF r = "nil"
             THEN /\ osOpt' = Apply(osOpt, a.cf, a.on)
                  /\ pc' = [pc EXCEPT ![t] = "load"]
                  /\ ret' = ret
             ELSE /\ osOpt' = osOpt
                  /\ pc' = [pc EXCEPT ![t] = "done"]
                  /\ ret' = [ret EXCEPT ![t] = ControlMessageReturn(r)]
  /\ UNCHANGED <<conn, connClosed, hdrincl, ctor, ep, rawOpt, cur, ncalls, overlap>>

\* setControlMessage, the in-memory update: read of the recorded flags ...
setControlMessage_load(t) ==
  /\ pc[t] = "load"
  /\ cur' = [cur EXCEPT ![t].tmp = rawOpt]
  /\ pc' = [pc EXCEPT ![t] = "store"]
  /\ UNCHANGED <<conn, connClosed, hdrincl, osOpt, ctor, ep, rawOpt, oslog, ret, ncalls, overlap>>

\* Mutant: the recorded flags are not written back.
setControlMessage_storeSkipped(t) ==
  /\ pc[t] = "store"
  /\ cur' = [cur EXCEPT ![t].tmp = {}]
  /\ pc' = [pc EXCEPT ![t] = "done"]
  /\ ret' = [ret EXCEPT ![t] = "nil"]
  /\ UNCHANGED <<conn, connClosed, hdrincl, osOpt, ctor, ep, rawOpt, oslog, ncalls, overlap>>

\* ... and write of the updated flags; then the call returns success.
setControlMessage_store(t) ==
  /\ pc[t] = "store"
  /\ rawOpt' = Apply(cur[t].tmp, cur[t].arg.cf, cur[t].arg.on)
  /\ cur' = [cur EXCEPT ![t].tmp = {}]
  /\ pc' = [pc EXCEPT ![t] = "done"]
  /\ ret' = [ret EXCEPT ![t] = ControlMessageReturn("nil")]
  /\ UNCHANGED <<conn, connClosed, hdrincl, osOpt, ctor, ep, oslog, ncalls, overlap>>

Next ==
  \/ NewConn
  \/ NewPacketConn
  \/ NewRawConn
  \/ ZeroValue
  \/ \E t \in Threads :
       \/ \E cf \in ControlFlagSets, on \in BOOLEAN :
            \/ PacketConn_SetControlMessage(t, cf, on)
            \/ RawConn_SetControlMessage(t, cf, on)
       \/ PacketConn_sysfd(t)
       \/ RawConn_sysfd(t)
       \/ setControlMessage_sockopt(t)
       \/ setControlMessage_load(t)
       \/ setControlMessage_store(t)
       \/ PacketConn_SetDeadline(t)
       \/ PacketConn_SetReadDeadline(t)
       \/ PacketConn_SetWriteDeadline(t)
       \/ PacketConn_Close(t)
       \/ RawConn_SetDeadline(t)
       \/ RawConn_SetReadDeadline(t)
       \/ RawConn_SetWriteDeadline(t)
       \/ RawConn_Close(t)

Spec == Init /\ [][Next]_vars

----------------------------------------------------------------------------
(* Properties *)

Done(t) == pc[t] = "done"
Quiescent == \A t \in Threads : pc[t] \in {"idle", "done"}
Ready == ep.type \in {"PacketConn", "RawConn"} /\ ok(ep.c)

\* The collaborator interactions of goroutine t's current (or last) call.
ByThread(t, e) == e.by = t
CallLog(t) ==
  LET after == SubSeq(oslog, cur[t].mark + 1, Len(oslog))
      Mine(e) == ByThread(t, e)
  IN SelectSeq(after, Mine)

Count(op) == Cardinality({i \in 1..Len(oslog) : oslog[i].op = op})
CountOk(op) == Cardinality({i \in 1..Len(oslog) : oslog[i].op = op /\ oslog[i].res = "nil"})

DeadlineSetters == {"SetDeadline", "SetReadDeadline", "SetWriteDeadline"}

\* C1: a constructor called with a nil connection returns an endpoint, makes
\* no collaborator interaction and does not panic, and every method of that
\* endpoint returns EINVAL.
C1_NilConnNotReady ==
  (ctor.name \in {"NewConn", "NewPacketConn", "NewRawConn"} /\ conn = "nil") =>
    /\ ctor.outcome = "returned"
    /\ ctor.r = "endpoint"
    /\ oslog = <<>>
    /\ \A t \in Threads : Done(t) => ret[t] = "EINVAL"

\* C2 as stated: for every connection NewRawConn returns either a RawConn
\* with no error, descriptor resolved and header prepend enabled, or nil
\* with an error.
C2_Original ==
  ctor.name = "NewRawConn" =>
    /\ ctor.outcome = "returned"
    /\ \/ /\ ctor.r = "endpoint" /\ ctor.err = "nil"
          /\ ep.type = "RawConn" /\ hdrincl
       \/ /\ ctor.r = "nil" /\ ctor.err # "nil"
          /\ ep = NoEndpoint

\* C2 amended: whenever NewRawConn returns, it returns either a RawConn
\* with no error, whose descriptor was resolved and whose header prepend is
\* enabled, or nil with an error and no endpoint; when its type assertions
\* fail it panics before any collaborator interaction and leaves no endpoint.
C2_Atomic ==
  ctor.name = "NewRawConn" =>
    \/ /\ ctor.outcome = "returned"
       /\ ctor.r = "endpoint" /\ ctor.err = "nil"
       /\ ep = [type |-> "RawConn", c |-> conn]
       /\ hdrincl
       /\ Len(oslog) >= 2
       /\ oslog[1].op = "sysfd" /\ oslog[1].res = "nil"
       /\ oslog[2].op = "hdrincl" /\ oslog[2].res = "nil" /\ oslog[2].on
       /\ oslog[2].fd = oslog[1].fd
    \/ /\ ctor.outcome = "returned"
       /\ ctor.r = "nil" /\ ctor.err # "nil"
       /\ ep = NoEndpoint
    \/ /\ ctor.outcome = "panic"
       /\ ~(conn = "IP")
       /\ ep = NoEndpoint
       /\ oslog = <<>>

C2_Witness ==
  ctor.name = "NewRawConn" /\ ctor.r = "endpoint" /\ ep.type = "RawConn" /\ hdrincl

\* C3: when header-prepend enablement fails, NewRawConn returns nil and
\* exactly the enablement's error, and no collaborator interaction follows
\* the failed enablement: no retry, no close, nothing on the connection.
C3_PrependFailure ==
  (\E i \in 1..Len(oslog) : oslog[i].op = "hdrincl" /\ oslog[i].res # "nil") =>
    /\ ctor.name = "NewRawConn" /\ ctor.outcome = "returned"
    /\ ctor.r = "nil"
    /\ ep = NoEndpoint
    /\ Len(oslog) = 2
    /\ oslog[1].op = "sysfd"
    /\ oslog[2].op = "hdrincl"
    /\ ctor.err = oslog[2].res
    /\ ~connClosed
    /\ ~hdrincl

C3_Witness ==
  /\ ctor.name = "NewRawConn" /\ ctor.err = "errHdrincl"
  /\ Len(oslog) = 2 /\ oslog[2].op = "hdrincl" /\ oslog[2].res = "errHdrincl"

\* C4: the recorded raw option state changes only in the final step of a
\* SetControlMessage call whose OS-level update succeeded and which returns
\* success; no step of a call that returns an error changes it.
C4_StateOnlyOnSuccess ==
  [][rawOpt' # rawOpt =>
       \E t \in Threads :
         /\ cur[t].m = "SetControlMessage"
         /\ pc[t] = "store" /\ pc'[t] = "done"
         /\ ret'[t] = "nil"
         /\ LET L == CallLog(t)
            IN Len(L) = 2 /\ L[2].op = "setopt" /\ L[2].res = "nil"
         /\ rawOpt' = Apply(cur[t].tmp, cur[t].cf, cur[t].on)]_vars

C4_Witness ==
  \E t \in Threads :
    /\ Ready /\ Done(t) /\ cur[t].m = "SetControlMessage"
    /\ ret[t] \in {"errSysfd", "errSockopt"}
    /\ cur[t].n = 2
    /\ rawOpt # {}

\* C5: on a PacketConn, a SetControlMessage call that the OS accepts returns
\* success, having resolved the connection's descriptor and invoked the
\* option setter exactly once with the caller's flags and on/off value on
\* that descriptor; while that is the collaborator's last interaction, the
\* OS has the flags enabled after on=true and disabled after on=false.
C5_SetThenClear ==
  \A t \in Threads :
    (/\ ep.type = "PacketConn" /\ Done(t) /\ cur[t].m = "SetControlMessage"
     /\ \E i \in 1..Len(CallLog(t)) :
          CallLog(t)[i].op = "setopt" /\ CallLog(t)[i].res = "nil") =>
      LET L == CallLog(t)
      IN /\ ret[t] = "nil"
         /\ Len(L) = 2
         /\ L[1].op = "sysfd" /\ L[1].res = "nil" /\ L[1].fd = Fd(conn)
         /\ L[2].op = "setopt"
         /\ L[2].fd = Fd(conn) /\ L[2].cf = cur[t].cf /\ L[2].on = cur[t].on
         /\ (oslog[Len(oslog)] = L[2] =>
               IF cur[t].on THEN cur[t].cf \subseteq osOpt
               ELSE cur[t].cf \cap osOpt = {})

C5_Witness ==
  /\ ep.type = "PacketConn" /\ conn = "UDP"
  /\ Done("g1") /\ cur["g1"].m = "SetControlMessage" /\ cur["g1"].n = 2
  /\ ret["g1"] = "nil" /\ ~cur["g1"].on /\ cur["g1"].cf = {"FlagTTL"}
  /\ Len(oslog) = 4
  /\ oslog[2].op = "setopt" /\ oslog[2].on /\ oslog[2].cf = {"FlagTTL"} /\ oslog[2].res = "nil"
  /\ oslog[4].op = "setopt" /\ ~oslog[4].on /\ oslog[4].cf = {"FlagTTL"} /\ oslog[4].res = "nil"
  /\ "FlagTTL" \notin osOpt

\* C6: once Close has returned success the connection reference is still
\* set, and every deadline setter or SetControlMessage call started later
\* returns the closed connection's error (the deadline setter's, or the
\* descriptor resolution's), never EINVAL; such a SetControlMessage call
\* does not reach the option setter, and no such call panics or blocks.
C6_AfterClose ==
  /\ (CloseSucceeded => Ready /\ ctor.outcome = "returned")
  /\ \A t \in Threads :
       (cur[t].afterClose /\ cur[t].m \in DeadlineSetters \cup {"SetControlMessage"}) =>
         LET L == CallLog(t)
         IN /\ pc[t] \in {"sysfd", "done"}
            /\ (pc[t] = "sysfd" => ENABLED (PacketConn_sysfd(t) \/ RawConn_sysfd(t)))
            /\ (Done(t) =>
                 /\ ret[t] # "EINVAL" /\ ret[t] # "nil"
                 /\ Len(L) = 1
                 /\ ret[t] = L[1].res
                 /\ IF cur[t].m = "SetControlMessage"
                    THEN L[1].op = "sysfd" /\ ret[t] = "errSysfd"
                    ELSE L[1].op = cur[t].m /\ ret[t] = "errClosing")

C6_Witness ==
  \E t \in Threads :
    /\ cur[t].afterClose /\ Done(t)
    /\ cur[t].m = "SetControlMessage" /\ ret[t] = "errSysfd"

\* C7: every SetControlMessage call goes readiness check, descriptor
\* resolution, option setter, in that order: a failed readiness check
\* resolves no descriptor; a failed resolution is returned as it is and the
\* option setter is not invoked; the option setter is invoked at most once
\* and its result is returned as it is.
C7_FixedOrder ==
  \A t \in Threads :
    cur[t].m = "SetControlMessage" =>
      LET L == CallLog(t)
      IN /\ (pc[t] = "sysfd" => L = <<>>)
         /\ (pc[t] = "sockopt" =>
               Len(L) = 1 /\ L[1].op = "sysfd" /\ L[1].res = "nil")
         /\ (pc[t] \in {"load", "store"} =>
               /\ Len(L) = 2 /\ L[1].op = "sysfd" /\ L[1].res = "nil"
               /\ L[2].op = "setopt" /\ L[2].res = "nil")
         /\ (Done(t) =>
               \/ ~ok(ep.c) /\ L = <<>> /\ ret[t] = "EINVAL"
               \/ /\ ok(ep.c) /\ Len(L) = 1
                  /\ L[1].op = "sysfd" /\ L[1].res # "nil" /\ ret[t] = L[1].res
               \/ /\ ok(ep.c) /\ Len(L) = 2
                  /\ L[1].op = "sysfd" /\ L[1].res = "nil"
                  /\ L[2].op = "setopt" /\ ret[t] = L[2].res)

C7_Witness ==
  \E t \in Threads :
    /\ cur[t].m = "SetControlMessage" /\ Done(t) /\ Ready
    /\ Len(CallLog(t)) = 2 /\ CallLog(t)[2].op = "setopt"
    /\ ret[t] = "errSockopt"

\* C8 as stated: NewConn and NewPacketConn, given any non-nil connection of
\* whatever concrete kind, return a ready endpoint wrapping it, without
\* panicking and without a collaborator interaction.
C8_Original ==
  (ctor.name \in {"NewConn", "NewPacketConn"} /\ conn # "nil") =>
    /\ ctor.outcome = "returned" /\ ctor.r = "endpoint" /\ ctor.err = "nil"
    /\ ep.c = conn /\ ok(ep.c)
    /\ ep.type = (IF ctor.name = "NewConn" THEN "Conn" ELSE "PacketConn")
    /\ \A i \in 1..Len(oslog) : oslog[i].by # "ctor"

\* C8 amended: NewConn given any non-nil stream connection, and
\* NewPacketConn given any non-nil datagram connection whose concrete kind
\* also implements net.Conn, return a ready endpoint wrapping it, without
\* panicking and without a collaborator interaction.
C8_ValidConn ==
  (ctor.name \in {"NewConn", "NewPacketConn"} /\ conn \in NetConnKinds) =>
    /\ ctor.outcome = "returned" /\ ctor.r = "endpoint" /\ ctor.err = "nil"
    /\ ep.c = conn /\ ok(ep.c)
    /\ ep.type = (IF ctor.name = "NewConn" THEN "Conn" ELSE "PacketConn")
    /\ \A i \in 1..Len(oslog) : oslog[i].by # "ctor"

C8_Witness ==
  /\ ctor.name = "NewPacketConn" /\ conn = "IP"
  /\ ep = [type |-> "PacketConn", c |-> "IP"] /\ oslog = <<>>

\* C9 as stated: the wrapped connection's close is invoked only from the
\* endpoint's Close method and no more than once in total, so a second
\* Close does not invoke it again.
C9_Original ==
  /\ \A i \in 1..Len(oslog) : oslog[i].op = "Close" => oslog[i].via = "Close"
  /\ Count("Close") <= 1

\* C9 amended: the wrapped connection's close is invoked only from the
\* endpoint's Close method, exactly once by each Close call on a ready
\* endpoint (a second Close invokes it again and returns its
\* closed-connection error); at most one of those invocations succeeds.
C9_CloseOnlyFromClose ==
  /\ \A i \in 1..Len(oslog) : oslog[i].op = "Close" => oslog[i].via = "Close"
  /\ \A t \in Threads :
       (cur[t].m = "Close" /\ ok(ep.c)) =>
         LET L == CallLog(t)
         IN Len(L) = 1 /\ L[1].op = "Close" /\ ret[t] = L[1].res
  /\ CountOk("Close") <= 1
  /\ \A i, j \in 1..Len(oslog) :
       (i < j /\ oslog[i].op = "Close" /\ oslog[j].op = "Close") =>
         oslog[j].res = "errClosing"

C9_Witness ==
  /\ Count("Close") = 2 /\ CountOk("Close") = 1
  /\ \E t \in Threads : Done(t) /\ cur[t].m = "Close" /\ ret[t] = "errClosing"

\* C10: SetControlMessage calls are not serialized: the recorded raw option
\* state can differ from the OS-level state once all calls have returned,
\* and it does so only when two SetControlMessage calls were in flight
\* together.
C10_DivergenceNeedsOverlap ==
  (Quiescent /\ rawOpt # osOpt) => overlap

C10_Witness ==
  /\ \A t \in Threads :
       Done(t) /\ cur[t].m = "SetControlMessage" /\ ret[t] = "nil"
  /\ Ready
  /\ rawOpt # osOpt
====
